---------------------------- MODULE Spec2Model ----------------------------
(***************************************************************************)
(* Mnemosyne: the camera device (src/device/cam4.py) and the content       *)
(* server (src/server/app2.py).                                            *)
(*                                                                         *)
(* Text that the code compares, formats or joins (timestamps, range        *)
(* bounds, descriptions, the entries text) is a sequence of character      *)
(* codes; text that the code only carries (images, device ids, messages,   *)
(* questions) is an opaque string.                                         *)
(***************************************************************************)
EXTENDS Integers, Sequences, FiniteSets

(***************************************************************************)
(* Bounds of the model.                                                    *)
(***************************************************************************)
MaxInserts == 2
MaxEvents == 6

(***************************************************************************)
(* Character codes.                                                        *)
(***************************************************************************)
Space == <<32>>
Dash == <<45>>
Colon == <<58>>
Newline == <<10>>

Digit(d) == 48 + d

\* %M, %S, %H, %m, %d: two digits, zero padded
Pad2(n) == <<Digit((n \div 10) % 10), Digit(n % 10)>>

\* %Y: four digits, zero padded
Pad4(n) == <<Digit((n \div 1000) % 10), Digit((n \div 100) % 10)>> \o Pad2(n)

(***************************************************************************)
(* The server's wall clock, datetime.now(): a calendar instant.  The model *)
(* keeps seconds since 2024-01-01 00:00:00 and stays inside January.       *)
(***************************************************************************)
ClockYear == 2024
ClockMonth == 1

\* the instants the wall clock shows in the model:
\* 09:59:59 and 10:00:00 on January 1st
ClockValues == {35999, 36000}

\* the instants the range bounds of a form are taken from
BoundValues == ClockValues

DayOf(c) == 1 + (c \div 86400)
HourOf(c) == (c % 86400) \div 3600
MinuteOf(c) == (c % 3600) \div 60
SecondOf(c) == c % 60

\* strftime("%Y-%m-%d")
FormatDate(c) == Pad4(ClockYear) \o Dash \o Pad2(ClockMonth) \o Dash \o Pad2(DayOf(c))

\* strftime("%H:%M:%S")
FormatTime(c) == Pad2(HourOf(c)) \o Colon \o Pad2(MinuteOf(c)) \o Colon \o Pad2(SecondOf(c))

\* datetime.now().strftime("%Y-%m-%d %H:%M:%S")
strftime(c) == FormatDate(c) \o Space \o FormatTime(c)

\* the value of an <input type="time"> without seconds: HH:MM
FormatTimeShort(c) == Pad2(HourOf(c)) \o Colon \o Pad2(MinuteOf(c))

(***************************************************************************)
(* SQLite compares TEXT values with the BINARY collation: memcmp over the  *)
(* common prefix, and on a tie the shorter string is the smaller.          *)
(***************************************************************************)
RECURSIVE TextLeqFrom(_, _, _)
TextLeqFrom(a, b, k) ==
    IF k > Len(a) THEN TRUE
    ELSE IF k > Len(b) THEN FALSE
    ELSE IF a[k] < b[k] THEN TRUE
    ELSE IF a[k] > b[k] THEN FALSE
    ELSE TextLeqFrom(a, b, k + 1)

\* a <= b for two TEXT values
TextLeq(a, b) == TextLeqFrom(a, b, 1)


\* BETWEEN that leaves the upper bound out
BetweenExclusive(x, a, b) == TextLeq(a, x) /\ TextLeq(x, b) /\ x # b

\* x BETWEEN a AND b
Between(x, a, b) == TextLeq(a, x) /\ TextLeq(x, b)


(***************************************************************************)
(* Small input sets.                                                       *)
(***************************************************************************)
Images == {"imgA", "imgB"}

\* descriptions a vision provider answers with: "a", "bb"
ProviderDescriptions == {<<97>>, <<98, 98>>}

\* the description a device computed on its own (captureImageGoogle): "cc"
DeviceDescription == <<99, 99>>

Questions == {"q1", "q2"}

Answers == {"ans1", "ans2"}

\* the handler threads of the server that the model runs at once
HandlerThreads == {1, 2}

VARIABLES
    content,        \* server: the rows of table content, in rowid order
    clock,          \* server: the wall clock, seconds since 2024-01-01 00:00:00
    issuedIds,      \* history: the ids that inserts were given, in order
    lastReq,        \* the request a handler has just run for, until its response is sent
    response,       \* what the handler answered to lastReq
    fetched,        \* history: the rows the SELECT of that handler returned
    lastDelete,     \* history: the content_id list of the request answered before, if it deleted
    visionCalls,    \* the calls of the vision provider made for lastReq: image and reply
    chatCalls,      \* the calls of the chat endpoint made for lastReq: messages and reply
    handlers,       \* server: the add_content handlers running at once, position and locals
    shutdownCounter,\* device: global shutdownCounter
    picam2,         \* device: global picam2, NoCamera or the number of the Picamera2 object
    firstTime,      \* device: global firstTime
    devId,          \* device: global devId
    led1,           \* device: the level of output led_1
    led2,           \* device: the level of output led_2
    running,        \* device: the process has not been stopped by the shutdown
    cameras,        \* history: how many Picamera2 objects were constructed
    events,         \* history: the button events handled, in order
    shutdownLog,    \* history: the numbers of the events that ran "sudo shutdown now"
    lastCallback,   \* history: what the callback of the last event met and sent
    pending,        \* device: the lines with a detected edge whose callback has not begun
    thread,         \* device: where the GPIO callback thread is, and the callback's locals
    failed          \* history: a capture, description or upload step has raised

serverVars == <<content, clock, issuedIds, lastReq, response, fetched, lastDelete, visionCalls,
                chatCalls, handlers>>

deviceVars == <<shutdownCounter, picam2, firstTime, devId, led1, led2, running, cameras,
                events, shutdownLog, lastCallback, pending, thread, failed>>

vars == <<content, clock, issuedIds, lastReq, response, fetched, lastDelete, visionCalls, chatCalls,
          handlers,
          shutdownCounter, picam2, firstTime, devId, led1, led2, running, cameras,
          events, shutdownLog, lastCallback, pending, thread, failed>>

\* no request is being answered: the requests are handled one after the other
Idle == lastReq.op = "none"

(***************************************************************************)
(* Table content: id INTEGER PRIMARY KEY, image, description, timestamp,   *)
(* deviceid.  The table is a sequence of rows in ascending id (the order   *)
(* of a scan of the rowid b-tree).                                         *)
(***************************************************************************)
RowIds(rows) == {rows[k].id : k \in 1..Len(rows)}

MaxOf(S) == CHOOSE m \in S : \A x \in S : x <= m

\* INTEGER PRIMARY KEY without AUTOINCREMENT: an insert that gives no id gets
\* one more than the largest id now in the table, 1 in an empty table
NextRowid(rows) == IF rows = <<>> THEN 1 ELSE MaxOf(RowIds(rows)) + 1

\* an insert that also writes its timestamp into the rows already stored
InsertRowStampingAll(rows, image, description, timestamp, deviceid) ==
    Append([k \in 1..Len(rows) |-> [rows[k] EXCEPT !.timestamp = timestamp]],
           [id |-> NextRowid(rows), image |-> image, description |-> description,
            timestamp |-> timestamp, deviceid |-> deviceid])

\* INSERT INTO content (image, description, timestamp, deviceid) VALUES (?, ?, ?, ?)
InsertRow(rows, image, description, timestamp, deviceid) ==
    Append(rows, [id |-> NextRowid(rows), image |-> image, description |-> description,
                  timestamp |-> timestamp, deviceid |-> deviceid])


\* DELETE with the condition id <= ?
DeleteRowUpTo(rows, id) == SelectSeq(rows, LAMBDA r : r.id > id)

\* DELETE FROM content WHERE id = ?
DeleteRow(rows, id) == SelectSeq(rows, LAMBDA r : r.id # id)

\* a loop that stops after the first id of the list
DeleteRowsFirstOnly(rows, ids) ==
    IF ids = <<>> THEN rows ELSE DeleteRow(rows, Head(ids))

\* for content_id in selected_ids: DELETE ...
RECURSIVE DeleteRows(_, _)
DeleteRows(rows, ids) ==
    IF ids = <<>> THEN rows ELSE DeleteRows(DeleteRow(rows, Head(ids)), Tail(ids))

\* ORDER BY timestamp: a stable sort of the scan, by the BINARY collation
RECURSIVE InsertSorted(_, _)
InsertSorted(sorted, r) ==
    IF sorted = <<>> THEN <<r>>
    ELSE IF TextLeq(Head(sorted).timestamp, r.timestamp)
         THEN <<Head(sorted)>> \o InsertSorted(Tail(sorted), r)
         ELSE <<r>> \o sorted

RECURSIVE OrderByTimestamp(_)
OrderByTimestamp(rows) ==
    IF rows = <<>> THEN <<>>
    ELSE InsertSorted(OrderByTimestamp(SubSeq(rows, 1, Len(rows) - 1)), rows[Len(rows)])

\* SELECT * FROM content WHERE timestamp BETWEEN ? AND ? ORDER BY timestamp
SelectRange(rows, start_datetime, end_datetime) ==
    OrderByTimestamp(SelectSeq(rows, LAMBDA r : Between(r.timestamp, start_datetime, end_datetime)))

\* SELECT * FROM content
SelectAll(rows) == rows

(***************************************************************************)
(* The vision provider as the server sees it: requests.post raises, or     *)
(* response.json() is an error object, an object with no choice, or an     *)
(* object whose first choice carries the description.                      *)
(***************************************************************************)
VisionReplies ==
    {[raised |-> TRUE]}
    \cup {[raised |-> FALSE, json |-> [error |-> "invalid_api_key"]]}
    \cup {[raised |-> FALSE, json |-> [choices |-> <<>>]]}
    \cup {[raised |-> FALSE, json |-> [choices |-> <<[message |-> [content |-> d]]>>]] :
            d \in ProviderDescriptions}

\* temp['choices'][0]['message']['content'] does not raise
HasContent(temp) ==
    /\ "choices" \in DOMAIN temp
    /\ Len(temp.choices) >= 1

\* the bodies POSTed to /add_content
AddBodies ==
    {[image |-> "imgA", description |-> <<>>, deviceid |-> "dev1"],
     [image |-> "imgB", description |-> DeviceDescription],
     [image |-> "imgA", description |-> <<>>, deviceid |-> "dev1",
      timestamp |-> strftime(0)]}

\* the deviceid column always given its default
GetDeviceidDefault(content_data) == "Unknown"

\* content_data.get('deviceid', 'Unknown')
GetDeviceid(content_data) ==
    IF "deviceid" \in DOMAIN content_data THEN content_data.deviceid ELSE "Unknown"

\* analyze_image(base64_image): one requests.post to the provider
analyze_image(base64_image, reply) == <<[image |-> base64_image, reply |-> reply]>>


\* the description of the body when it has one, else the provider's
StoredDescriptionOfBody(content_data, temp) ==
    IF content_data.description # <<>>
    THEN content_data.description
    ELSE temp.choices[1].message.content

\* description = temp['choices'][0]['message']['content']; the body's own
\* description is not read (line 215 is commented out)
StoredDescription(content_data, temp) == temp.choices[1].message.content


\* add_content whose except branch goes on with an empty description
add_content_KeepsGoing(content_data, reply) ==
    /\ Idle
    /\ lastReq' = [op |-> "add_content", json |-> content_data]
    /\ visionCalls' = analyze_image(content_data.image, reply)
    /\ chatCalls' = <<>>
    /\ fetched' = <<>>
    /\ IF reply.raised
       THEN /\ response' = [status |-> 500, message |-> "Internal Server Error"]
            /\ UNCHANGED <<content, issuedIds>>
       ELSE /\ Len(issuedIds) < MaxInserts
            /\ content' = InsertRow(content, content_data.image,
                                    IF HasContent(reply.json)
                                    THEN StoredDescription(content_data, reply.json)
                                    ELSE <<>>,
                                    strftime(clock), GetDeviceid(content_data))
            /\ issuedIds' = Append(issuedIds, NextRowid(content))
            /\ response' = [status |-> 201, message |-> "Content added successfully"]
    /\ UNCHANGED <<clock, lastDelete>>
    /\ UNCHANGED handlers
    /\ UNCHANGED deviceVars

(***************************************************************************)
(* POST /add_content                                                       *)
(***************************************************************************)
add_content(content_data, reply) ==
    /\ Idle
    /\ lastReq' = [op |-> "add_content", json |-> content_data]
    /\ visionCalls' = analyze_image(content_data.image, reply)
    /\ chatCalls' = <<>>
    /\ fetched' = <<>>
    /\ IF reply.raised
       THEN \* analyze_image(image) is called before the try: the exception
            \* leaves the handler and Flask answers 500
            /\ response' = [status |-> 500, message |-> "Internal Server Error"]
            /\ UNCHANGED <<content, issuedIds>>
       ELSE IF ~HasContent(reply.json)
       THEN /\ response' = [status |-> 201, message |-> "No Content added"]
            /\ UNCHANGED <<content, issuedIds>>
       ELSE /\ Len(issuedIds) < MaxInserts
            /\ content' = InsertRow(content, content_data.image,
                                    StoredDescription(content_data, reply.json),
                                    strftime(clock), GetDeviceid(content_data))
            /\ issuedIds' = Append(issuedIds, NextRowid(content))
            /\ response' = [status |-> 201, message |-> "Content added successfully"]
    /\ UNCHANGED <<clock, lastDelete>>
    /\ UNCHANGED handlers
    /\ UNCHANGED deviceVars

AddContent ==
    \E content_data \in AddBodies, reply \in VisionReplies : add_content(content_data, reply)

(***************************************************************************)
(* GET /get_contents                                                       *)
(***************************************************************************)
get_contents ==
    /\ Idle
    /\ lastReq' = [op |-> "get_contents"]
    /\ response' = [status |-> 200, rows |-> SelectAll(content)]
    /\ fetched' = SelectAll(content)
    /\ visionCalls' = <<>>
    /\ chatCalls' = <<>>
    /\ UNCHANGED <<content, clock, issuedIds, lastDelete>>
    /\ UNCHANGED handlers
    /\ UNCHANGED deviceVars

(***************************************************************************)
(* The date and time fields of the two forms.  A browser sends all four,   *)
(* empty when left blank; the time is HH:MM:SS or HH:MM.                   *)
(***************************************************************************)
BlankDates == [start_date |-> <<>>, start_time |-> <<>>, end_date |-> <<>>, end_time |-> <<>>]

FullDates ==
    {[start_date |-> FormatDate(a), start_time |-> FormatTime(a),
      end_date |-> FormatDate(b), end_time |-> FormatTime(b)] : a, b \in BoundValues}

ShortDates ==
    {[start_date |-> FormatDate(a), start_time |-> FormatTimeShort(a),
      end_date |-> FormatDate(b), end_time |-> FormatTimeShort(b)] :
        a \in BoundValues, b \in BoundValues}

DateFields == {BlankDates} \cup FullDates \cup ShortDates

\* the ids a form can list: those an insert can have given, and one more
FormIds == 1..(MaxInserts + 1)

\* request.form.getlist('content_id')
SelectedIdLists ==
    {<<>>} \cup {<<i>> : i \in FormIds} \cup {<<i, i + 1>> : i \in 1..MaxInserts}

\* request.form['start_date'] and the three after it find their keys
HasDateFields(form) == "start_date" \in DOMAIN form

\* f"{start_date} {start_time}"
StartDatetime(form) == form.start_date \o Space \o form.start_time

\* f"{end_date} {end_time}"
EndDatetime(form) == form.end_date \o Space \o form.end_time

\* the forms POSTed to /contents: with the date fields, or with content_id only
ContentsForms ==
    {[content_id |-> ids, start_date |-> d.start_date, start_time |-> d.start_time,
      end_date |-> d.end_date, end_time |-> d.end_time] :
        ids \in SelectedIdLists, d \in DateFields}
    \cup {[content_id |-> ids] : ids \in SelectedIdLists}

(***************************************************************************)
(* GET|POST /contents                                                      *)
(***************************************************************************)
manage_contents(method, form) ==
    /\ Idle
    /\ lastReq' = [op |-> "contents", method |-> method, form |-> form]
    /\ visionCalls' = <<>>
    /\ chatCalls' = <<>>
    /\ IF method = "POST" /\ ~HasDateFields(form)
       THEN \* request.form['start_date'] raises BadRequestKeyError before any DELETE
            /\ response' = [status |-> 400, message |-> "Bad Request"]
            /\ fetched' = <<>>
            /\ UNCHANGED content
       ELSE LET remaining == IF method = "POST"
                             THEN DeleteRows(content, form.content_id)
                             ELSE content
                \* start_date is None only when the method is GET
                contents == IF method # "POST"
                            THEN SelectAll(remaining)
                            ELSE SelectRange(remaining, StartDatetime(form), EndDatetime(form))
            IN  /\ content' = remaining
                /\ fetched' = contents
                /\ response' = [status |-> 200, rows |-> contents]
    /\ UNCHANGED <<clock, issuedIds, lastDelete>>
    /\ UNCHANGED handlers
    /\ UNCHANGED deviceVars

ManageContentsGet == manage_contents("GET", [content_id |-> <<>>])

ManageContentsPost == \E form \in ContentsForms : manage_contents("POST", form)

(***************************************************************************)
(* The chat endpoint: client.chat.completions.create raises, or the first  *)
(* choice of the completion carries the answer.                            *)
(***************************************************************************)
ChatReplies ==
    {[raised |-> TRUE]} \cup {[raised |-> FALSE, content |-> a] : a \in Answers}

SystemPrompt == "You are provided a set of timestamps followed by descriptions"

\* the messages of ask_gpt4(question, entries_text)
ChatMessages(question, entries_text) ==
    <<[role |-> "system", content |-> SystemPrompt],
      [role |-> "user", content |-> question],
      [role |-> "user", content |-> entries_text]>>


\* ask_gpt4 that makes no call when there is no entry to ask about
ask_gpt4_SkipsEmpty(question, entries_text, reply) ==
    IF entries_text = <<>> THEN <<>>
    ELSE <<[messages |-> ChatMessages(question, entries_text), reply |-> reply]>>

\* ask_gpt4(question, entries_text): one client.chat.completions.create
ask_gpt4(question, entries_text, reply) ==
    <<[messages |-> ChatMessages(question, entries_text), reply |-> reply]>>

\* f"{entry['timestamp']}: {entry['description']}"
FormatEntry(entry) == entry.timestamp \o Colon \o Space \o entry.description


\* a join that ends every part with the separator
RECURSIVE JoinTrailing(_, _)
JoinTrailing(sep, parts) ==
    IF parts = <<>> THEN <<>>
    ELSE parts[1] \o sep \o JoinTrailing(sep, Tail(parts))

\* sep.join(parts)
RECURSIVE Join(_, _)
Join(sep, parts) ==
    IF parts = <<>> THEN <<>>
    ELSE IF Len(parts) = 1 THEN parts[1]
    ELSE parts[1] \o sep \o Join(sep, Tail(parts))

\* "\n".join([f"..." for entry in entries])
EntriesText(entries) == Join(Newline, [k \in 1..Len(entries) |-> FormatEntry(entries[k])])

\* SELECT timestamp, description FROM content WHERE timestamp BETWEEN ? AND ? ORDER BY timestamp
SelectEntries(rows, start_datetime, end_datetime) ==
    LET found == SelectRange(rows, start_datetime, end_datetime)
    IN  [k \in 1..Len(found) |->
            [timestamp |-> found[k].timestamp, description |-> found[k].description]]

QueryForms ==
    {[question |-> q, start_date |-> d.start_date, start_time |-> d.start_time,
      end_date |-> d.end_date, end_time |-> d.end_time] :
        q \in Questions, d \in DateFields}

(***************************************************************************)
(* GET|POST /query                                                         *)
(***************************************************************************)
query(method, form, reply) ==
    /\ Idle
    /\ lastReq' = [op |-> "query", method |-> method, form |-> form]
    /\ visionCalls' = <<>>
    /\ IF method = "POST"
       THEN LET entries == SelectEntries(content, StartDatetime(form), EndDatetime(form))
                entries_text == EntriesText(entries)
            IN  /\ fetched' = entries
                /\ chatCalls' = ask_gpt4(form.question, entries_text, reply)
                /\ IF reply.raised
                   THEN \* the exception of ask_gpt4 leaves the handler
                        response' = [status |-> 500, message |-> "Internal Server Error"]
                   ELSE response' = [status |-> 200, question |-> form.question,
                                     response |-> reply.content, entries |-> entries_text]
       ELSE /\ fetched' = <<>>
            /\ chatCalls' = <<>>
            /\ response' = [status |-> 200, question |-> "", response |-> "", entries |-> <<>>]
    /\ UNCHANGED <<content, clock, issuedIds, lastDelete>>
    /\ UNCHANGED handlers
    /\ UNCHANGED deviceVars

QueryGet == query("GET", [question |-> ""], [raised |-> FALSE, content |-> ""])

QueryPost == \E form \in QueryForms, reply \in ChatReplies : query("POST", form, reply)

(***************************************************************************)
(* Flask sends the response of the handler; the next request can be taken. *)
(***************************************************************************)
Respond ==
    /\ ~Idle
    /\ lastReq' = [op |-> "none"]
    /\ response' = [status |-> 0]
    /\ fetched' = <<>>
    /\ visionCalls' = <<>>
    /\ chatCalls' = <<>>
    /\ UNCHANGED <<content, clock, issuedIds>>
    /\ UNCHANGED handlers
    /\ UNCHANGED deviceVars

SendResponse ==
    /\ Respond
    /\ UNCHANGED lastDelete

\* the same step, with the deletes of the request written to the history
SendResponseOfDelete ==
    /\ Respond
    /\ lastDelete' = IF lastReq.op = "contents" /\ lastReq.method = "POST"
                        /\ response.status = 200
                     THEN [deleted |-> TRUE, content_id |-> lastReq.form.content_id]
                     ELSE [deleted |-> FALSE]

(***************************************************************************)
(* Between two requests the wall clock moves on; it is also set back (a    *)
(* time correction, the end of daylight saving time).                      *)
(***************************************************************************)
Tick ==
    /\ Idle
    /\ \E c \in ClockValues : c > clock /\ clock' = c
    /\ UNCHANGED <<content, issuedIds, lastReq, response, fetched, lastDelete, visionCalls, chatCalls>>
    /\ UNCHANGED handlers
    /\ UNCHANGED deviceVars

ClockSetBack ==
    /\ Idle
    /\ \E c \in ClockValues : c < clock /\ clock' = c
    /\ UNCHANGED <<content, issuedIds, lastReq, response, fetched, lastDelete, visionCalls, chatCalls>>
    /\ UNCHANGED handlers
    /\ UNCHANGED deviceVars

(***************************************************************************)
(* add_content in the threads of the Flask server (app.run serves each     *)
(* request in a thread of its own): the provider call and the lookup, the  *)
(* reading of the clock, the INSERT.  A handler whose provider call fails  *)
(* returns with nothing changed.                                           *)
(***************************************************************************)
add_content_describe(h, content_data, reply) ==
    /\ handlers[h].pc = "free"
    /\ handlers' = IF reply.raised \/ ~HasContent(reply.json)
                   THEN handlers
                   ELSE [handlers EXCEPT ![h] =
                            [pc |-> "described", image |-> content_data.image,
                             description |-> StoredDescription(content_data, reply.json),
                             deviceid |-> GetDeviceid(content_data)]]
    /\ UNCHANGED <<content, clock, issuedIds, lastReq, response, fetched, lastDelete,
                   visionCalls, chatCalls>>
    /\ UNCHANGED deviceVars

\* timestamp = datetime.now().strftime('%Y-%m-%d %H:%M:%S')
add_content_timestamp(h) ==
    /\ handlers[h].pc = "described"
    /\ handlers' = [handlers EXCEPT ![h] =
                        [pc |-> "stamped", image |-> handlers[h].image,
                         description |-> handlers[h].description,
                         deviceid |-> handlers[h].deviceid,
                         timestamp |-> strftime(clock)]]
    /\ UNCHANGED <<content, clock, issuedIds, lastReq, response, fetched, lastDelete,
                   visionCalls, chatCalls>>
    /\ UNCHANGED deviceVars

\* conn.execute('INSERT ...'); conn.commit(); conn.close(); return
add_content_insert(h) ==
    /\ handlers[h].pc = "stamped"
    /\ Len(issuedIds) < MaxInserts
    /\ content' = InsertRow(content, handlers[h].image, handlers[h].description,
                            handlers[h].timestamp, handlers[h].deviceid)
    /\ issuedIds' = Append(issuedIds, NextRowid(content))
    /\ handlers' = [handlers EXCEPT ![h] = [pc |-> "free"]]
    /\ UNCHANGED <<clock, lastReq, response, fetched, lastDelete, visionCalls, chatCalls>>
    /\ UNCHANGED deviceVars

HandlerDescribes ==
    \E h \in HandlerThreads, content_data \in AddBodies, reply \in VisionReplies :
        add_content_describe(h, content_data, reply)

HandlerStamps == \E h \in HandlerThreads : add_content_timestamp(h)

HandlerInserts == \E h \in HandlerThreads : add_content_insert(h)

(***************************************************************************)
(* The device, src/device/cam4.py.  RPi.GPIO runs the callbacks of the     *)
(* three buttons one after the other on its callback thread.               *)
(***************************************************************************)
\* config['shutdown_counter_max']
ShutdownCounterMax == 3

\* config['default_device_id']
DefaultDeviceId == "default"

\* the address getIP() finds for wlan0
DeviceIp == "10.0.0.7"

HIGH == "HIGH"
LOW == "LOW"

\* picam2 = None
NoCamera == 0

\* what the camera does in capture_image_and_save_to_base64: Picamera2() raises,
\* a later call (configure, start, capture_array) raises, or a frame is returned
CameraOutcomes == {"init_fails", "capture_fails", "frame"}

\* what the Gemini call of analyze_image_google does
GeminiOutcomes == {"raises", "text"}

\* what requests.post to the content server does
PostOutcomes == {"raises", "response"}

\* the constructed object kept in no global
CameraAfterForgets(cam) == NoCamera

\* the Picamera2 object capture_image_and_save_to_base64 leaves in picam2
CameraAfter(cam) ==
    IF picam2 # NoCamera THEN picam2
    ELSE IF cam = "init_fails" THEN NoCamera
    ELSE cameras + 1

\* the Picamera2 objects constructed so far, after capture_image_and_save_to_base64
CamerasAfter(cam) ==
    IF picam2 = NoCamera /\ cam # "init_fails" THEN cameras + 1 ELSE cameras

\* firstTime after capture_image_and_save_to_base64: getIP() ran unless Picamera2() raised
FirstTimeAfter(cam) == IF cam = "init_fails" THEN firstTime ELSE 1

\* devId after capture_image_and_save_to_base64
DevIdAfter(cam) == IF cam # "init_fails" /\ firstTime = 0 THEN DeviceIp ELSE devId

\* the payload of post_content(description, base64_image)
Payload(description, base64_image, deviceid) ==
    [image |-> base64_image, description |-> description, deviceid |-> deviceid]


\* ResetCounter without the assignment to shutdownCounter
ResetCounterOmitted(button) ==
    /\ events' = Append(events, button)
    /\ UNCHANGED <<shutdownCounter, shutdownLog>>

\* shutdownCounter = config['shutdown_counter_max'], and the event is noted
ResetCounter(button) ==
    /\ shutdownCounter' = ShutdownCounterMax
    /\ events' = Append(events, button)
    /\ UNCHANGED shutdownLog

\* buttonCallback whose except branch leaves picam2 as it is
buttonCallback_KeepsCamera(cam, image, post) ==
    /\ running
    /\ Len(events) < MaxEvents
    /\ picam2 = NoCamera \/ cam # "init_fails"
    /\ ResetCounter("openai_button")
    /\ firstTime' = FirstTimeAfter(cam)
    /\ devId' = DevIdAfter(cam)
    /\ cameras' = CamerasAfter(cam)
    /\ picam2' = CameraAfter(cam)
    /\ led1' = IF cam # "frame" THEN HIGH ELSE LOW
    /\ led2' = IF cam # "frame" THEN HIGH ELSE LOW
    /\ lastCallback' = [button |-> "openai_button", camera |-> cam, escaped |-> cam # "frame",
                        described |-> "no",
                        posts |-> IF cam # "frame" THEN <<>>
                                  ELSE <<Payload(<<>>, image, DevIdAfter(cam))>>,
                        post |-> IF cam # "frame" THEN "no" ELSE post]
    /\ failed' = (failed \/ cam # "frame" \/ post = "raises")
    /\ UNCHANGED <<running, pending, thread>>
    /\ UNCHANGED serverVars

\* buttonCallback(channel): captureImageOpenai() after the counter reset
buttonCallback(cam, image, post) ==
    /\ running
    /\ Len(events) < MaxEvents
    /\ picam2 = NoCamera \/ cam # "init_fails"
    /\ ResetCounter("openai_button")
    /\ firstTime' = FirstTimeAfter(cam)
    /\ devId' = DevIdAfter(cam)
    /\ cameras' = CamerasAfter(cam)
    /\ IF cam # "frame"
       THEN \* the exception leaves captureImageOpenai and the callback
            /\ led1' = HIGH
            /\ led2' = HIGH
            /\ picam2' = CameraAfter(cam)
            /\ lastCallback' = [button |-> "openai_button", camera |-> cam, escaped |-> TRUE,
                                described |-> "no", posts |-> <<>>, post |-> "no"]
       ELSE /\ led2' = LOW
            /\ led1' = LOW
            /\ picam2' = IF post = "raises" THEN NoCamera ELSE CameraAfter(cam)
            /\ lastCallback' = [button |-> "openai_button", camera |-> cam, escaped |-> FALSE,
                                described |-> "no",
                                posts |-> <<Payload(<<>>, image, DevIdAfter(cam))>>,
                                post |-> post]
    /\ failed' = (failed \/ cam # "frame" \/ post = "raises")
    /\ UNCHANGED <<running, pending, thread>>
    /\ UNCHANGED serverVars

\* buttonCallback2(channel)
buttonCallback2 ==
    /\ running
    /\ Len(events) < MaxEvents
    /\ led2' = HIGH
    /\ led1' = HIGH
    /\ shutdownCounter' = shutdownCounter - 1
    /\ events' = Append(events, "shutdown_button")
    /\ shutdownLog' = IF shutdownCounter - 1 = 0
                      THEN Append(shutdownLog, Len(events) + 1)
                      ELSE shutdownLog
    /\ lastCallback' = [button |-> "shutdown_button", camera |-> "no", escaped |-> FALSE,
                        described |-> "no", posts |-> <<>>, post |-> "no"]
    /\ UNCHANGED <<picam2, firstTime, devId, running, cameras, pending, thread, failed>>
    /\ UNCHANGED serverVars

\* buttonCallback3 that uploads with an empty description when the Gemini call raised
buttonCallback3_PostsAnyway(cam, image, gemini, post) ==
    /\ running
    /\ Len(events) < MaxEvents
    /\ picam2 = NoCamera \/ cam # "init_fails"
    /\ ResetCounter("google_button")
    /\ firstTime' = FirstTimeAfter(cam)
    /\ devId' = DevIdAfter(cam)
    /\ cameras' = CamerasAfter(cam)
    /\ led1' = IF cam # "frame" THEN HIGH ELSE LOW
    /\ led2' = IF cam # "frame" THEN HIGH ELSE LOW
    /\ picam2' = IF cam = "frame" /\ (gemini = "raises" \/ post = "raises")
                 THEN NoCamera ELSE CameraAfter(cam)
    /\ lastCallback' =
        IF cam # "frame"
        THEN [button |-> "google_button", camera |-> cam, escaped |-> TRUE,
              described |-> "no", posts |-> <<>>, post |-> "no"]
        ELSE [button |-> "google_button", camera |-> cam, escaped |-> FALSE,
              described |-> gemini,
              posts |-> <<Payload(IF gemini = "raises" THEN <<>> ELSE DeviceDescription,
                                  image, DevIdAfter(cam))>>,
              post |-> post]
    /\ failed' = (failed \/ cam # "frame" \/ gemini = "raises" \/ post = "raises")
    /\ UNCHANGED <<running, pending, thread>>
    /\ UNCHANGED serverVars

\* buttonCallback3(channel): captureImageGoogle() after the counter reset
buttonCallback3(cam, image, gemini, post) ==
    /\ running
    /\ Len(events) < MaxEvents
    /\ picam2 = NoCamera \/ cam # "init_fails"
    /\ ResetCounter("google_button")
    /\ firstTime' = FirstTimeAfter(cam)
    /\ devId' = DevIdAfter(cam)
    /\ cameras' = CamerasAfter(cam)
    /\ IF cam # "frame"
       THEN \* the exception leaves captureImageGoogle and the callback
            /\ led1' = HIGH
            /\ led2' = HIGH
            /\ picam2' = CameraAfter(cam)
            /\ lastCallback' = [button |-> "google_button", camera |-> cam, escaped |-> TRUE,
                                described |-> "no", posts |-> <<>>, post |-> "no"]
       ELSE /\ led1' = LOW
            /\ led2' = LOW
            /\ IF gemini = "raises"
               THEN /\ picam2' = NoCamera
                    /\ lastCallback' = [button |-> "google_button", camera |-> cam,
                                        escaped |-> FALSE, described |-> gemini,
                                        posts |-> <<>>, post |-> "no"]
               ELSE /\ picam2' = IF post = "raises" THEN NoCamera ELSE CameraAfter(cam)
                    /\ lastCallback' = [button |-> "google_button", camera |-> cam,
                                        escaped |-> FALSE, described |-> gemini,
                                        posts |-> <<Payload(DeviceDescription, image,
                                                            DevIdAfter(cam))>>,
                                        post |-> post]
    /\ failed' = (failed \/ cam # "frame" \/ gemini = "raises" \/ post = "raises")
    /\ UNCHANGED <<running, pending, thread>>
    /\ UNCHANGED serverVars

ButtonOpenai ==
    \E cam \in CameraOutcomes, image \in Images, post \in PostOutcomes :
        buttonCallback(cam, image, post)

ButtonGoogle ==
    \E cam \in CameraOutcomes, image \in Images, gemini \in GeminiOutcomes, post \in PostOutcomes :
        buttonCallback3(cam, image, gemini, post)

\* "sudo shutdown now" has been run: the system stops the process, at once or
\* after some more button events
Halt ==
    /\ running
    /\ shutdownLog # <<>>
    /\ running' = FALSE
    /\ UNCHANGED <<shutdownCounter, picam2, firstTime, devId, led1, led2, cameras,
                   events, shutdownLog, lastCallback, pending, thread, failed>>
    /\ UNCHANGED serverVars

(***************************************************************************)
(* The same callbacks, statement by statement.  The edge of a press is     *)
(* noted when it comes, also while a callback runs; the one callback       *)
(* thread of RPi.GPIO takes the noted edges one at a time and runs the     *)
(* callback of each to its end before it takes the next.                   *)
(***************************************************************************)
Buttons == {"openai_button", "shutdown_button", "google_button"}

\* GPIO.add_event_detect(..., GPIO.RISING, callback=...): an edge on a line
EdgeDetected(button) ==
    /\ running
    /\ button \notin pending
    /\ Len(events) + Cardinality(pending) < MaxEvents
    /\ pending' = pending \cup {button}
    /\ UNCHANGED <<shutdownCounter, picam2, firstTime, devId, led1, led2, running, cameras,
                   events, shutdownLog, lastCallback, thread, failed>>
    /\ UNCHANGED serverVars

Edge == \E button \in Buttons : EdgeDetected(button)

\* a capture callback that begins on a thread of its own while buttonCallback2 is
\* between its statements; only its counter reset is kept
CallbackBeginsPreempting(button) ==
    /\ running
    /\ thread.pc \in {"wait", "store", "test"}
    /\ button \in pending
    /\ pending' = pending \ {button}
    /\ ResetCounter(button)
    /\ led2' = HIGH
    /\ led1' = HIGH
    /\ thread' = IF thread.pc = "wait" THEN [pc |-> "acquire", button |-> button] ELSE thread
    /\ UNCHANGED <<picam2, firstTime, devId, running, cameras, lastCallback, failed>>
    /\ UNCHANGED serverVars

\* buttonCallback / buttonCallback3 up to the call of
\* capture_image_and_save_to_base64: the LEDs, the counter reset, the LEDs again
CallbackBegins(button) ==
    /\ running
    /\ thread.pc = "wait"
    /\ button \in pending
    /\ pending' = pending \ {button}
    /\ ResetCounter(button)
    /\ led2' = HIGH
    /\ led1' = HIGH
    /\ thread' = [pc |-> "acquire", button |-> button]
    /\ UNCHANGED <<picam2, firstTime, devId, running, cameras, lastCallback, failed>>
    /\ UNCHANGED serverVars

CaptureCallbackBegins ==
    \E button \in {"openai_button", "google_button"} : CallbackBegins(button)

\* capture_image_and_save_to_base64() and the LED write that follows it
capture_image_and_save_to_base64(cam, image) ==
    /\ running
    /\ thread.pc = "acquire"
    /\ picam2 = NoCamera \/ cam # "init_fails"
    /\ firstTime' = FirstTimeAfter(cam)
    /\ devId' = DevIdAfter(cam)
    /\ cameras' = CamerasAfter(cam)
    /\ picam2' = CameraAfter(cam)
    /\ IF cam # "frame"
       THEN \* the exception leaves the callback; the thread takes the next edge
            /\ lastCallback' = [button |-> thread.button, camera |-> cam, escaped |-> TRUE,
                                described |-> "no", posts |-> <<>>, post |-> "no"]
            /\ thread' = [pc |-> "wait"]
            /\ failed' = TRUE
            /\ UNCHANGED <<led1, led2>>
       ELSE /\ led2' = IF thread.button = "openai_button" THEN LOW ELSE led2
            /\ led1' = IF thread.button = "google_button" THEN LOW ELSE led1
            /\ thread' = [pc |-> "send", button |-> thread.button, image |-> image]
            /\ UNCHANGED <<lastCallback, failed>>
    /\ UNCHANGED <<shutdownCounter, running, events, shutdownLog, pending>>
    /\ UNCHANGED serverVars

CaptureImage ==
    \E cam \in CameraOutcomes, image \in Images : capture_image_and_save_to_base64(cam, image)

\* the try of captureImageOpenai / captureImageGoogle, its except, the last LED write
TryPost(gemini, post) ==
    /\ running
    /\ thread.pc = "send"
    /\ thread.button = "google_button" \/ gemini = "text"
    /\ LET described == IF thread.button = "google_button" THEN gemini ELSE "no"
           posted == described # "raises"
           raised == ~posted \/ post = "raises"
       IN  /\ picam2' = IF raised THEN NoCamera ELSE picam2
           /\ failed' = (failed \/ raised)
           /\ lastCallback' =
                [button |-> thread.button, camera |-> "frame", escaped |-> FALSE,
                 described |-> described,
                 posts |-> IF posted
                           THEN <<Payload(IF thread.button = "google_button"
                                          THEN DeviceDescription ELSE <<>>,
                                          thread.image, devId)>>
                           ELSE <<>>,
                 post |-> IF posted THEN post ELSE "no"]
    /\ post = "response" \/ thread.button = "openai_button" \/ gemini = "text"
    /\ led1' = LOW
    /\ led2' = LOW
    /\ thread' = [pc |-> "wait"]
    /\ UNCHANGED <<shutdownCounter, firstTime, devId, running, cameras, events,
                   shutdownLog, pending>>
    /\ UNCHANGED serverVars

DescribeAndPost ==
    \E gemini \in GeminiOutcomes, post \in PostOutcomes : TryPost(gemini, post)

\* buttonCallback2(channel), taken by the callback thread: the LEDs, and the
\* right-hand side of shutdownCounter = shutdownCounter - 1 is evaluated
ShutdownCallback ==
    /\ running
    /\ thread.pc = "wait"
    /\ "shutdown_button" \in pending
    /\ pending' = pending \ {"shutdown_button"}
    /\ led2' = HIGH
    /\ led1' = HIGH
    /\ events' = Append(events, "shutdown_button")
    /\ thread' = [pc |-> "store", button |-> "shutdown_button",
                  value |-> shutdownCounter - 1, event |-> Len(events) + 1]
    /\ UNCHANGED <<shutdownCounter, shutdownLog, lastCallback, picam2, firstTime, devId,
                   running, cameras, failed>>
    /\ UNCHANGED serverVars

\* the value is stored in the global shutdownCounter
ShutdownStore ==
    /\ running
    /\ thread.pc = "store"
    /\ shutdownCounter' = thread.value
    /\ thread' = [pc |-> "test", button |-> "shutdown_button", event |-> thread.event]
    /\ UNCHANGED <<picam2, firstTime, devId, led1, led2, running, cameras, events,
                   shutdownLog, lastCallback, pending, failed>>
    /\ UNCHANGED serverVars

\* if shutdownCounter == 0: the LEDs again and os.system("sudo shutdown now")
ShutdownTest ==
    /\ running
    /\ thread.pc = "test"
    /\ shutdownLog' = IF shutdownCounter = 0
                      THEN Append(shutdownLog, thread.event)
                      ELSE shutdownLog
    /\ led2' = HIGH
    /\ led1' = HIGH
    /\ lastCallback' = [button |-> "shutdown_button", camera |-> "no", escaped |-> FALSE,
                        described |-> "no", posts |-> <<>>, post |-> "no"]
    /\ thread' = [pc |-> "wait"]
    /\ UNCHANGED <<shutdownCounter, picam2, firstTime, devId, running, cameras, events,
                   pending, failed>>
    /\ UNCHANGED serverVars

(***************************************************************************)
(* The state after start-up: init_db() on an absent database file leaves   *)
(* an empty table; the device has run initGpio() and set both LEDs.        *)
(***************************************************************************)
Init ==
    /\ content = <<>>
    /\ clock = 35999
    /\ issuedIds = <<>>
    /\ lastReq = [op |-> "none"]
    /\ response = [status |-> 0]
    /\ fetched = <<>>
    /\ lastDelete = [deleted |-> FALSE]
    /\ visionCalls = <<>>
    /\ chatCalls = <<>>
    /\ handlers = [h \in HandlerThreads |-> [pc |-> "free"]]
    /\ shutdownCounter = ShutdownCounterMax
    /\ picam2 = NoCamera
    /\ firstTime = 0
    /\ devId = DefaultDeviceId
    /\ led1 = HIGH
    /\ led2 = HIGH
    /\ running = TRUE
    /\ cameras = 0
    /\ events = <<>>
    /\ shutdownLog = <<>>
    /\ lastCallback = [button |-> "none", camera |-> "no", escaped |-> FALSE,
                       described |-> "no", posts |-> <<>>, post |-> "no"]
    /\ pending = {}
    /\ thread = [pc |-> "wait"]
    /\ failed = FALSE

\* the server
Next ==
    \/ AddContent
    \/ get_contents
    \/ ManageContentsGet
    \/ ManageContentsPost
    \/ QueryGet
    \/ QueryPost
    \/ SendResponse
    \/ Tick
    \/ ClockSetBack

Spec == Init /\ [][Next]_vars

\* the device
DeviceNext ==
    \/ ButtonOpenai
    \/ buttonCallback2
    \/ ButtonGoogle
    \/ Halt

DeviceSpec == Init /\ [][DeviceNext]_vars

\* the device, its callbacks statement by statement
ThreadNext ==
    \/ Edge
    \/ CaptureCallbackBegins
    \/ CaptureImage
    \/ DescribeAndPost
    \/ ShutdownCallback
    \/ ShutdownStore
    \/ ShutdownTest
    \/ Halt

ThreadSpec == Init /\ [][ThreadNext]_vars

\* the server under add_content requests handled at once; the clock only moves on
ConcurrentNext ==
    \/ HandlerDescribes
    \/ HandlerStamps
    \/ HandlerInserts
    \/ Tick

ConcurrentSpec == Init /\ [][ConcurrentNext]_vars

\* the server under inserts and deletes, the history of the deletes kept
DeleteNext ==
    \/ AddContent
    \/ ManageContentsPost
    \/ SendResponseOfDelete

DeleteSpec == Init /\ [][DeleteNext]_vars


(***************************************************************************)
(* Properties of the device.                                               *)
(***************************************************************************)
CaptureButtons == {"openai_button", "google_button"}

\* the shutdown events among events[1..i] that follow the last capture event
RECURSIVE PressesSinceCapture(_)
PressesSinceCapture(i) ==
    IF i = 0 THEN 0
    ELSE IF events[i] = "shutdown_button" THEN 1 + PressesSinceCapture(i - 1)
    ELSE 0

\* the events that ran the shutdown command
ShutdownEvents == {shutdownLog[k] : k \in 1..Len(shutdownLog)}

\* C1: with the maximum 3, the shutdown command is run once, by the third of three
\* shutdown events with no capture event in between, counted from the start or from
\* the last capture event; after a capture event between the 1st and the 2nd
\* shutdown event the command is run by the 4th shutdown event, not before.
C1_ShutdownOnThirdPress ==
    /\ ShutdownCounterMax = 3
    /\ Len(shutdownLog) = Cardinality(ShutdownEvents)
    /\ \A i \in 1..Len(events) :
        i \in ShutdownEvents <=>
            (events[i] = "shutdown_button" /\ PressesSinceCapture(i) = 3)
    /\ (Len(events) >= 3 /\ \A i \in 1..3 : events[i] = "shutdown_button")
        => {i \in ShutdownEvents : i <= 3} = {3}
    /\ (/\ Len(events) >= 5
        /\ events[1] = "shutdown_button"
        /\ events[2] \in CaptureButtons
        /\ \A i \in 3..5 : events[i] = "shutdown_button")
        => {i \in ShutdownEvents : i <= 5} = {5}

\* a shutdown event, a capture event, three shutdown events: the fifth event ran the command
C1_Witness ==
    /\ Len(events) = 5
    /\ events[1] = "shutdown_button"
    /\ events[2] \in CaptureButtons
    /\ \A i \in 3..5 : events[i] = "shutdown_button"
    /\ shutdownLog = <<5>>


\* the callback of the last event was one of the two capture callbacks
CaptureHandled == lastCallback.button \in CaptureButtons

\* the camera raised in capture_image_and_save_to_base64 during that callback
AcquisitionFailed == CaptureHandled /\ lastCallback.camera \in {"init_fails", "capture_fails"}

\* C12: when the camera raises during a capture callback (at its construction, its
\* configuration or the capture of the frame), the exception is caught inside the
\* callback and the global camera handle is set to none, so that the next capture
\* constructs a new camera object.
C12_AcquisitionFailureResets ==
    AcquisitionFailed => (~lastCallback.escaped /\ picam2 = NoCamera)

\* a button event is handled by this step
EventHandled == events' # events

\* C13: when requests.post to the content server raises during a capture, the
\* callback returns normally and has set the camera handle to none, and the process
\* runs on; later shutdown events leave the handle as it is, and the next capture
\* that gets a camera constructs a new camera object.
C13_PostFailureResets ==
    [][/\ (EventHandled /\ lastCallback'.post = "raises")
            => /\ ~lastCallback'.escaped
               /\ picam2' = NoCamera
               /\ running' = running
       /\ (EventHandled /\ lastCallback'.button = "shutdown_button") => picam2' = picam2
       /\ (EventHandled /\ picam2 = NoCamera /\ lastCallback'.button \in CaptureButtons
                /\ lastCallback'.camera # "init_fails")
            => cameras' = cameras + 1]_vars

\* the upload of a capture has raised after a second camera object was constructed:
\* an earlier capture had reset the handle and the device went on
C13_Witness ==
    /\ CaptureHandled
    /\ lastCallback.post = "raises"
    /\ ~lastCallback.escaped
    /\ picam2 = NoCamera
    /\ cameras = 2
    /\ running

\* C14: once the shutdown counter has reached zero and the shutdown command was
\* run, the process handles no further button event: the counter is not reset by
\* a later capture event and the command is not run a second time.
C14_ZeroIsTerminal ==
    [][shutdownLog # <<>>
        => /\ events' = events
           /\ shutdownCounter' = shutdownCounter
           /\ shutdownLog' = shutdownLog]_vars

\* the capture events handled so far
CaptureEvents == {i \in 1..Len(events) : events[i] \in CaptureButtons}

GoogleCaptured == lastCallback.button = "google_button" /\ lastCallback.camera = "frame"

\* C20: on the Google button, when the Gemini call raises, nothing is uploaded for
\* that capture and the camera handle is set to none; an upload is made only when
\* the call returned a description, and its payload carries that description.
C20_NoUploadWithoutDescription ==
    GoogleCaptured =>
        /\ ~lastCallback.escaped
        /\ lastCallback.described = "raises"
            => (lastCallback.posts = <<>> /\ picam2 = NoCamera)
        /\ lastCallback.posts # <<>>
            => /\ lastCallback.described = "text"
               /\ Len(lastCallback.posts) = 1
               /\ lastCallback.posts[1].description = DeviceDescription
               /\ lastCallback.posts[1].description # <<>>

\* the Gemini call has raised in a capture that used a camera object constructed
\* by an earlier capture
C20_Witness ==
    /\ GoogleCaptured
    /\ lastCallback.described = "raises"
    /\ lastCallback.posts = <<>>
    /\ picam2 = NoCamera
    /\ cameras = 1
    /\ Cardinality(CaptureEvents) >= 2

\* the shutdown counter after the callbacks of events[1..i], run one after the other
RECURSIVE CounterAfter(_)
CounterAfter(i) ==
    IF i = 0 THEN ShutdownCounterMax
    ELSE IF events[i] \in CaptureButtons THEN ShutdownCounterMax
    ELSE CounterAfter(i - 1) - 1

\* the events whose callback has stored its counter value; has made its test
StoredUpTo == IF thread.pc = "store" THEN Len(events) - 1 ELSE Len(events)
TestedUpTo == IF thread.pc \in {"store", "test"} THEN Len(events) - 1 ELSE Len(events)

C22_LedsOffAfterCapture ==
    CaptureHandled => (led1 = LOW /\ led2 = LOW)

(***************************************************************************)
(* Properties of the server.                                               *)
(***************************************************************************)
\* a handler has run for an add_content request and its response is not yet sent
AddAnswered == lastReq.op = "add_content"

\* the provider call of the request failed: it raised, or its response has no
\* choices[0].message.content
VisionFailed(calls) ==
    \/ calls[1].reply.raised
    \/ "choices" \notin DOMAIN calls[1].reply.json
    \/ calls[1].reply.json.choices = <<>>

\* C2: when the provider call of an add_content request fails (it raises, or its
\* response has no choices[0].message.content), the table has the same rows after
\* the request as before, and the response is not the acknowledgement of an added
\* row: it is the message 'No Content added' or an error status.
C2_FailedDescriptionWritesNothing ==
    [][(Idle /\ AddAnswered' /\ VisionFailed(visionCalls'))
        => /\ content' = content
           /\ response'.message # "Content added successfully"
           /\ response'.message = "No Content added" \/ response'.status >= 400]_vars

\* a failed provider call answered while the table holds a row
C2_Witness ==
    /\ AddAnswered
    /\ VisionFailed(visionCalls)
    /\ ~visionCalls[1].reply.raised
    /\ Len(content) >= 1


\* the number written by the digits text[from..to]
RECURSIVE Number(_, _, _)
Number(text, from, to) ==
    IF to < from THEN 0 ELSE 10 * Number(text, from, to - 1) + (text[to] - 48)

\* year, month, day, hour, minute, second of a 'YYYY-MM-DD HH:MM:SS' text
Calendar(text) ==
    <<Number(text, 1, 4), Number(text, 6, 7), Number(text, 9, 10),
      Number(text, 12, 13), Number(text, 15, 16), Number(text, 18, 19)>>

RECURSIVE EarlierOrSameFrom(_, _, _)
EarlierOrSameFrom(x, y, k) ==
    IF k > 6 THEN TRUE
    ELSE IF x[k] < y[k] THEN TRUE
    ELSE IF x[k] > y[k] THEN FALSE
    ELSE EarlierOrSameFrom(x, y, k + 1)

\* instant a is not after instant b, both 'YYYY-MM-DD HH:MM:SS' texts
NotAfter(a, b) == EarlierOrSameFrom(Calendar(a), Calendar(b), 1)

\* a handler has run the range SELECT for a form whose four date and time fields
\* make two full 'YYYY-MM-DD HH:MM:SS' bounds
FullRangeAnswered ==
    /\ lastReq.op \in {"contents", "query"}
    /\ lastReq.method = "POST"
    /\ HasDateFields(lastReq.form)
    /\ Len(lastReq.form.start_date) = 10
    /\ Len(lastReq.form.start_time) = 8
    /\ Len(lastReq.form.end_date) = 10
    /\ Len(lastReq.form.end_time) = 8

\* what a listing shows of a row: /contents the whole row, /query two columns
Shown(row) ==
    IF lastReq.op = "query"
    THEN [timestamp |-> row.timestamp, description |-> row.description]
    ELSE row

\* the places of the table whose row lies in the range of the form, by the calendar
InRange ==
    {k \in 1..Len(content) :
        /\ NotAfter(StartDatetime(lastReq.form), content[k].timestamp)
        /\ NotAfter(content[k].timestamp, EndDatetime(lastReq.form))}

\* C3: for full 'YYYY-MM-DD HH:MM:SS' bounds a and b, the range listing of
\* POST /contents and of POST /query is exactly the stored records with
\* a <= timestamp <= b, each once, in ascending order of timestamp; it is empty
\* when no record qualifies.
C3_RangeListing ==
    FullRangeAnswered =>
        /\ Len(fetched) = Cardinality(InRange)
        /\ \A k \in InRange :
            Cardinality({j \in 1..Len(fetched) : fetched[j] = Shown(content[k])})
                = Cardinality({i \in InRange : Shown(content[i]) = Shown(content[k])})
        /\ \A j \in 1..Len(fetched) : \E k \in InRange : fetched[j] = Shown(content[k])
        /\ \A i, j \in 1..Len(fetched) :
            i < j => NotAfter(fetched[i].timestamp, fetched[j].timestamp)
        /\ lastReq.op = "contents" => response.rows = fetched

\* a range that takes one of two stored rows, the one stored last and stamped first
C3_Witness ==
    /\ FullRangeAnswered
    /\ Len(content) = 2
    /\ Len(fetched) = 1
    /\ fetched[1] = Shown(content[2])
    /\ fetched[1].timestamp = StartDatetime(lastReq.form)
    /\ ~NotAfter(content[1].timestamp, content[2].timestamp)


\* the row the answered add_content request has inserted
Inserted == content[Len(content)]

\* the answered add_content request has inserted a row
AddStored == AddAnswered /\ response.message = "Content added successfully"

\* C4: every insert is given an id greater than every id given by an earlier
\* insert, also after deletes (an id is never used again), and the timestamp of
\* the inserted row is the server's clock at the insert, not a value of the request.
C4_IdsNeverReused ==
    /\ \A i, j \in 1..Len(issuedIds) : i < j => issuedIds[i] < issuedIds[j]
    /\ AddStored => Inserted.timestamp = strftime(clock)


\* a POST to /contents has come with its date fields, so that its deletes have run
DeleteAnswered ==
    /\ lastReq.op = "contents"
    /\ lastReq.method = "POST"
    /\ HasDateFields(lastReq.form)

\* the ids a content_id list names
Listed(ids) == {ids[k] : k \in 1..Len(ids)}

\* C5: a delete request that names only ids that are not in the table is answered
\* without an error and leaves the table as it is; so the second of two delete
\* requests in a row that name the same ids leaves the table the first one made.
C5_DeleteAbsentIsNoOp ==
    [][(Idle /\ DeleteAnswered')
        => /\ response'.status = 200
           /\ (Listed(lastReq'.form.content_id) \cap RowIds(content) = {})
                => content' = content
           /\ (lastDelete.deleted /\ lastDelete.content_id = lastReq'.form.content_id)
                => content' = content]_vars

\* the second of two delete requests in a row for an id that an insert had given,
\* answered while another row is stored
C5_Witness ==
    /\ DeleteAnswered
    /\ lastDelete.deleted
    /\ lastDelete.content_id = lastReq.form.content_id
    /\ Len(lastReq.form.content_id) = 1
    /\ \E k \in 1..Len(issuedIds) : issuedIds[k] = lastReq.form.content_id[1]
    /\ lastReq.form.content_id[1] \notin RowIds(content)
    /\ Len(content) = 1
    /\ response.status = 200


C7_Always201 ==
    [][(Idle /\ AddAnswered')
        => /\ response'.status = 201
           /\ response'.message \in {"Content added successfully", "No Content added"}
           /\ response'.message = "Content added successfully"
                <=> (Len(content') = Len(content) + 1 /\ ~VisionFailed(visionCalls'))
           /\ response'.message = "No Content added"
                <=> (content' = content /\ VisionFailed(visionCalls'))]_vars

\* the rows of a sequence, as a set
RowSet(rows) == {rows[k] : k \in 1..Len(rows)}

\* the form of a POST to /contents supplies no date: the four fields are absent
\* or all left blank
NoDatesSupplied(form) ==
    \/ ~HasDateFields(form)
    \/ /\ form.start_date = <<>>
       /\ form.start_time = <<>>
       /\ form.end_date = <<>>
       /\ form.end_time = <<>>

\* C8: a POST to /contents deletes the rows named by content_id and then renders
\* from the table after the delete: all the remaining rows when no date fields
\* were supplied (absent or blank), the rows within the range when they were; a
\* deleted id is never rendered.
C8_DeleteThenRender ==
    [][(Idle /\ lastReq'.op = "contents" /\ lastReq'.method = "POST")
        => LET form == lastReq'.form
               remaining == {r \in RowSet(content) : r.id \notin Listed(form.content_id)}
           IN  /\ RowSet(content') = remaining
               /\ response'.status = 200
               /\ RowSet(response'.rows) =
                    IF NoDatesSupplied(form)
                    THEN remaining
                    ELSE {r \in remaining :
                            Between(r.timestamp, StartDatetime(form), EndDatetime(form))}
               /\ \A k \in 1..Len(response'.rows) :
                    response'.rows[k].id \notin Listed(form.content_id)]_vars


\* a handler has run for a POST to /query
QueryAnswered == lastReq.op = "query" /\ lastReq.method = "POST"

\* the entries text the handler passed to ask_gpt4
PassedText == chatCalls[1].messages[3].content

\* the length of the line of the k-th fetched record: timestamp, colon, space, description
LineLen(k) == Len(fetched[k].timestamp) + 2 + Len(fetched[k].description)

\* the number of characters before the line of the k-th fetched record
RECURSIVE LineStart(_)
LineStart(k) == IF k = 1 THEN 0 ELSE LineStart(k - 1) + LineLen(k - 1) + 1

\* C9: the entries text of POST /query is the records the range filter matches,
\* each rendered as '<timestamp>: <description>', in ascending order of timestamp,
\* with one newline between two records and none after the last; it is empty when
\* no record matches.
C9_EntriesText ==
    QueryAnswered =>
        LET n == Len(fetched)
            matching == {k \in 1..Len(content) :
                            Between(content[k].timestamp, StartDatetime(lastReq.form),
                                    EndDatetime(lastReq.form))}
        IN  /\ n = Cardinality(matching)
            /\ \A j \in 1..n : \E k \in matching : fetched[j] = Shown(content[k])
            /\ \A i, j \in 1..n : i < j => NotAfter(fetched[i].timestamp, fetched[j].timestamp)
            /\ Len(chatCalls) >= 1
            /\ Len(PassedText) = IF n = 0 THEN 0 ELSE LineStart(n) + LineLen(n)
            /\ \A k \in 1..n :
                LET at == LineStart(k)
                    stamp == fetched[k].timestamp
                IN  /\ SubSeq(PassedText, at + 1, at + Len(stamp)) = stamp
                    /\ PassedText[at + Len(stamp) + 1] = 58
                    /\ PassedText[at + Len(stamp) + 2] = 32
                    /\ SubSeq(PassedText, at + Len(stamp) + 3, at + LineLen(k))
                        = fetched[k].description
                    /\ k < n => PassedText[at + LineLen(k) + 1] = 10
            /\ response.status = 200 => response.entries = PassedText

\* two matching records, the one stored last stamped first, rendered in a page
C9_Witness ==
    /\ QueryAnswered
    /\ response.status = 200
    /\ Len(fetched) = 2
    /\ fetched[1] = Shown(content[2])
    /\ fetched[1].timestamp # fetched[2].timestamp
    /\ fetched[1].description # fetched[2].description

\* C10: a POST to /query makes one chat-completion call: a system turn, the
\* question of the form as a user turn and the entries text as a second user turn,
\* also when the entries text is empty; the content of the completion is what the
\* page shows as the answer; when the call fails it is not made again and the
\* response carries no answer.
C10_OneChatCall ==
    QueryAnswered =>
        /\ Len(chatCalls) = 1
        /\ Len(chatCalls[1].messages) = 3
        /\ chatCalls[1].messages[1].role = "system"
        /\ chatCalls[1].messages[2] = [role |-> "user", content |-> lastReq.form.question]
        /\ chatCalls[1].messages[3].role = "user"
        /\ fetched = <<>> => PassedText = <<>>
        /\ fetched # <<>> => PassedText # <<>>
        /\ ~chatCalls[1].reply.raised =>
            /\ response.status = 200
            /\ response.response = chatCalls[1].reply.content
            /\ response.question = lastReq.form.question
        /\ chatCalls[1].reply.raised =>
            /\ response.status = 500
            /\ "response" \notin DOMAIN response

\* a query over a table with a row that the range leaves out: the call is made
\* with an empty entries text and its answer is shown
C10_Witness ==
    /\ QueryAnswered
    /\ content # <<>>
    /\ fetched = <<>>
    /\ Len(chatCalls) = 1
    /\ PassedText = <<>>
    /\ response.status = 200
    /\ response.response = "ans2"


\* a handler has run for GET /get_contents
ReadBack == lastReq.op = "get_contents"

ReadOnlyAnswered ==
    \/ lastReq.op = "get_contents"
    \/ lastReq.op = "query"
    \/ lastReq.op = "contents" /\ lastReq.method = "GET"
    \/ lastReq.op = "contents" /\ lastReq.method = "POST"
        /\ lastReq.form.content_id = <<>>

\* C15: no request changes a column of a stored row.  In every step a row of the
\* table is either still in the table with all its columns as they were, or its
\* id is in the table no more; list, range list and query leave the table as it
\* is; an insert leaves the rows before it as they were.
C15_RowsImmutable ==
    [][/\ \A r \in RowSet(content) : r \in RowSet(content') \/ r.id \notin RowIds(content')
       /\ (Idle /\ ReadOnlyAnswered') => content' = content
       /\ (Idle /\ AddAnswered')
            => /\ Len(content') >= Len(content)
               /\ SubSeq(content', 1, Len(content)) = content
       /\ (content' # content /\ Len(content') <= Len(content))
            => /\ lastReq'.op = "contents"
               /\ lastReq'.method = "POST"
               /\ RowSet(content') \subseteq RowSet(content)]_vars

\* an insert has run at a later clock value than the one of the row stored before it
C15_Witness ==
    /\ AddStored
    /\ Len(content) = 2
    /\ content[1].timestamp # content[2].timestamp


\* C16: a POST to /contents that reaches its deletes with the id list L removes
\* the rows whose id is in L and no other: the table after it is the table before
\* it without those rows, in the same order and with the same columns; ids of L
\* that are not in the table raise no error and change nothing.
C16_DeleteExactlyListed ==
    [][(Idle /\ DeleteAnswered')
        => /\ content' = SelectSeq(content,
                            LAMBDA r : r.id \notin Listed(lastReq'.form.content_id))
           /\ response'.status = 200]_vars

\* a delete of two listed ids, the first one stored by an insert and now removed,
\* the second one never given to a row, while another row stays
C16_Witness ==
    /\ DeleteAnswered
    /\ Len(lastReq.form.content_id) = 2
    /\ lastReq.form.content_id[1] \in {issuedIds[k] : k \in 1..Len(issuedIds)}
    /\ lastReq.form.content_id[1] \notin RowIds(content)
    /\ lastReq.form.content_id[2] \notin {issuedIds[k] : k \in 1..Len(issuedIds)}
    /\ Len(content) = 1
    /\ response.status = 200


\* C18: when add_content requests are handled at once and the clock only moves
\* on, the timestamps follow the ids: no table holds two rows of which the one
\* with the smaller id has the later timestamp.
C18_TimestampsFollowIds ==
    \A i, j \in 1..Len(content) :
        content[i].id < content[j].id => NotAfter(content[i].timestamp, content[j].timestamp)


\* a handler has run the range SELECT for a form whose two time fields are 'HH:MM'
ShortRangeAnswered ==
    /\ lastReq.op \in {"contents", "query"}
    /\ lastReq.method = "POST"
    /\ HasDateFields(lastReq.form)
    /\ Len(lastReq.form.start_date) = 10
    /\ Len(lastReq.form.start_time) = 5
    /\ Len(lastReq.form.end_date) = 10
    /\ Len(lastReq.form.end_time) = 5

\* a 'YYYY-MM-DD HH:MM' bound read as the instant 'YYYY-MM-DD HH:MM:00'
AtSecondZero(bound) == bound \o Colon \o <<48, 48>>

\* C19: with the two times of the range given as 'HH:MM', the range listing is the
\* stored records that lie, by the calendar, between the start bound and the end
\* bound, each read as HH:MM:00 and both included; a record stamped at HH:MM:00 of
\* the end bound is listed.
C19_ShortBoundsInclusive ==
    ShortRangeAnswered =>
        {fetched[j] : j \in 1..Len(fetched)}
            = {Shown(content[k]) : k \in
                {i \in 1..Len(content) :
                    /\ NotAfter(AtSecondZero(StartDatetime(lastReq.form)), content[i].timestamp)
                    /\ NotAfter(content[i].timestamp,
                                AtSecondZero(EndDatetime(lastReq.form)))}}

============================================================================
